---- MODULE Spec2Model ----
(***************************************************************************)
(* Set operations for 1D numeric arrays based on sort():                   *)
(* Lib/sandbox/arraysetops/arraysetops.py.                                 *)
(*                                                                         *)
(* Every operation is a pure function of its arguments.  The functions are *)
(* operators of this module, computed step by step as the Python code      *)
(* computes them.  The state machine draws the input arrays in Init and     *)
(* applies one operation per behaviour; the result is kept in ret.         *)
(*                                                                         *)
(* Arrays are sequences (1-based; an index k of the model is the Python    *)
(* index k-1).  An optional argument is <<>> (None) or <<v>>.  A result is *)
(* a record [raised, val]: raised = TRUE models the IndexError that a      *)
(* write to ed[0] / ed[-1] of a zero-length array raises.                  *)
(*                                                                         *)
(* scipy.argsort makes no promise about the order of equal elements, so    *)
(* argsort(ar) is the SET of all permutations that sort ar; an action      *)
(* that calls argsort picks one of them.                                   *)
(***************************************************************************)
EXTENDS Integers, Sequences, FiniteSets

VARIABLES ar1, ar2, toEnd, toBegin, perm, call, ret

vars == <<ar1, ar2, toEnd, toBegin, perm, call, ret>>

\* Longest input array.
MaxLen == 3
\* Array elements are drawn from 0..MaxVal.
MaxVal == 3

Values == 0..MaxVal

RECURSIVE SeqsUpTo(_)
SeqsUpTo(n) ==
    IF n = 0 THEN {<<>>}
    ELSE LET shorter == SeqsUpTo(n - 1)
         IN  shorter \cup {Append(s, v) : s \in {t \in shorter : Len(t) = n - 1}, v \in Values}

Arrays == SeqsUpTo(MaxLen)

IsUnique(s) == \A i, j \in 1..Len(s) : i # j => s[i] # s[j]

UniqueArrays == {s \in Arrays : IsUnique(s)}

None == <<>>
Some(v) == <<v>>
Optionals == {None} \cup {Some(v) : v \in Values}

\* Python truthiness of an optional numeric argument: None and 0 are false.
Truthy(x) == x # None /\ x[1] # 0

Ok(v) == [raised |-> FALSE, val |-> v]
IndexError == [raised |-> TRUE, val |-> <<>>]

Range(s) == {s[i] : i \in 1..Len(s)}

----------------------------------------------------------------------------
(* The array primitives the module takes from scipy. *)

concatenate(a, b) == a \o b

take(a, indices) == [k \in 1..Len(indices) |-> a[indices[k]]]

\* compress(condition, a): the elements of a at the positions where
\* condition is true; a condition shorter than a selects among a's prefix.
RECURSIVE compressFrom(_, _, _)
compressFrom(condition, a, i) ==
    IF i > Len(condition) THEN <<>>
    ELSE (IF condition[i] THEN <<a[i]>> ELSE <<>>) \o compressFrom(condition, a, i + 1)

compress(condition, a) == compressFrom(condition, a, 1)

Min(S) == CHOOSE m \in S : \A x \in S : m <= x

\* All index sequences over the positions in rest that list them in
\* non-decreasing order of ar; equal elements may come in any order.
RECURSIVE argsortOf(_, _)
argsortOf(ar, rest) ==
    IF rest = {} THEN {<<>>}
    ELSE LET m == Min({ar[j] : j \in rest})
         IN  UNION { {<<i>> \o p : p \in argsortOf(ar, rest \ {i})}
                     : i \in {j \in rest : ar[j] = m} }

argsort(ar) == argsortOf(ar, 1..Len(ar))

\* sort returns values only, so the order of ties cannot be seen in it.
RECURSIVE sortOf(_, _)
sortOf(ar, rest) ==
    IF rest = {} THEN <<>>
    ELSE LET m == Min({ar[j] : j \in rest})
             i == CHOOSE j \in rest : ar[j] = m
         IN  <<m>> \o sortOf(ar, rest \ {i})

sort(ar) == sortOf(ar, 1..Len(ar))

\* Elementwise comparisons of an array with the scalar 0.
EqZero(s) == [k \in 1..Len(s) |-> s[k] = 0]
NeZero(s) == [k \in 1..Len(s) |-> s[k] # 0]
\* scipy.array( flag, dtype = int )
AsInt(flag) == [k \in 1..Len(flag) |-> IF flag[k] THEN 1 ELSE 0]

\* ar[1:] - ar[:-1]
AdjacentDiff(ar) == [k \in 1..(Len(ar) - 1) |-> ar[k + 1] - ar[k]]

----------------------------------------------------------------------------
(* The operations of arraysetops.py. *)

ediff1d(a, tEnd, tBegin) ==
    LET dar1 == AdjacentDiff(a)
    IN  IF Truthy(tEnd) /\ Truthy(tBegin)
        THEN \* shape n+1 >= 1: ed[0] and ed[-1] exist; for n = 0 they are
             \* the same cell and the second assignment (toEnd) wins.
             IF Len(a) = 0 THEN Ok(<<tEnd[1]>>)
             ELSE Ok(<<tBegin[1]>> \o dar1 \o <<tEnd[1]>>)
        ELSE IF Truthy(tEnd)
        THEN IF Len(a) = 0 THEN IndexError ELSE Ok(dar1 \o <<tEnd[1]>>)
        ELSE IF Truthy(tBegin)
        THEN IF Len(a) = 0 THEN IndexError ELSE Ok(<<tBegin[1]>> \o dar1)
        ELSE Ok(dar1)

\* p is the outcome of scipy.argsort( ar ); it is read only when retIndx.
unique1d(a, retIndx, p) ==
    IF retIndx
    THEN LET aux == take(a, p)
             d   == ediff1d(aux, Some(1), None)
         IN  IF d.raised THEN IndexError
             ELSE Ok(<<compress(NeZero(d.val), p), compress(NeZero(d.val), aux)>>)
    ELSE LET aux == sort(a)
             d   == ediff1d(aux, Some(1), None)
         IN  IF d.raised THEN IndexError
             ELSE Ok(compress(NeZero(d.val), aux))

\* intersect1d with the sort left out.
intersect1d_unsorted(a, b) ==
    LET aux == concatenate(a, b)
    IN  Ok(compress(EqZero(AdjacentDiff(aux)), aux))

intersect1d(a, b) ==
    LET aux == sort(concatenate(a, b))
    IN  Ok(compress(EqZero(AdjacentDiff(aux)), aux))

intersect1d_nu(a, b) ==
    LET u1 == unique1d(a, FALSE, <<>>)
        u2 == unique1d(b, FALSE, <<>>)
    IN  IF u1.raised \/ u2.raised THEN IndexError
        ELSE LET aux == sort(concatenate(u1.val, u2.val))
             IN  Ok(compress(EqZero(AdjacentDiff(aux)), aux))

setxor1d(a, b) ==
    LET aux == sort(concatenate(a, b))
        d   == ediff1d(aux, Some(1), Some(1))
    IN  IF d.raised THEN IndexError
        ELSE LET flag == AsInt(EqZero(d.val))
                 d2   == ediff1d(flag, Some(0), None)
             IN  IF d2.raised THEN IndexError
                 ELSE Ok(compress(EqZero(d2.val), aux))

\* p is the outcome of scipy.argsort( ar ) for ar = concatenate( (ar1, ar2) ).
\* perm is a permutation, so argsort( perm ) has no ties: it is its inverse.
setmember1d(a, b, p) ==
    LET ar   == concatenate(a, b)
        aux  == take(ar, p)
        d    == ediff1d(aux, Some(1), None)
    IN  IF d.raised THEN IndexError
        ELSE LET flag == EqZero(d.val)
                 indx == CHOOSE q \in argsort(p) : TRUE
             IN  Ok(take(flag, SubSeq(indx, 1, Len(a))))

union1d(a, b) == unique1d(concatenate(a, b), FALSE, <<>>)

setdiff1d(a, b, p) ==
    LET aux == setmember1d(a, b, p)
    IN  IF aux.raised THEN IndexError
        ELSE Ok(compress([k \in 1..Len(aux.val) |-> aux.val[k] = FALSE], a))

----------------------------------------------------------------------------
(* The state machine: inputs are drawn in Init, one operation is applied. *)

Init ==
    /\ ar1 \in Arrays
    /\ ar2 \in Arrays
    /\ toEnd = None
    /\ toBegin = None
    /\ perm = <<>>
    /\ call = "idle"
    /\ ret = Ok(<<>>)

\* The operations documented as expecting inputs with unique elements are
\* exercised on such inputs.
InitUnique ==
    /\ ar1 \in UniqueArrays
    /\ ar2 \in UniqueArrays
    /\ toEnd = None
    /\ toBegin = None
    /\ perm = <<>>
    /\ call = "idle"
    /\ ret = Ok(<<>>)

\* The one-array operations take ar1 only; they are applied in the states
\* whose unused second array is empty.
CallEdiff1d ==
    /\ call = "idle"
    /\ ar2 = <<>>
    /\ \E e \in Optionals, b \in Optionals :
          /\ toEnd' = e
          /\ toBegin' = b
          /\ ret' = ediff1d(ar1, e, b)
    /\ call' = "ediff1d"
    /\ UNCHANGED <<ar1, ar2, perm>>

CallUnique1d ==
    /\ call = "idle"
    /\ ar2 = <<>>
    /\ ret' = unique1d(ar1, FALSE, <<>>)
    /\ call' = "unique1d"
    /\ UNCHANGED <<ar1, ar2, toEnd, toBegin, perm>>

CallUnique1dRetIndx ==
    /\ call = "idle"
    /\ ar2 = <<>>
    /\ \E p \in argsort(ar1) :
          /\ perm' = p
          /\ ret' = unique1d(ar1, TRUE, p)
    /\ call' = "unique1d_retIndx"
    /\ UNCHANGED <<ar1, ar2, toEnd, toBegin>>

CallIntersect1d ==
    /\ call = "idle"
    /\ ret' = intersect1d(ar1, ar2)
    /\ call' = "intersect1d"
    /\ UNCHANGED <<ar1, ar2, toEnd, toBegin, perm>>

CallIntersect1dNu ==
    /\ call = "idle"
    /\ ret' = intersect1d_nu(ar1, ar2)
    /\ call' = "intersect1d_nu"
    /\ UNCHANGED <<ar1, ar2, toEnd, toBegin, perm>>

CallSetxor1d ==
    /\ call = "idle"
    /\ ret' = setxor1d(ar1, ar2)
    /\ call' = "setxor1d"
    /\ UNCHANGED <<ar1, ar2, toEnd, toBegin, perm>>

CallSetmember1d ==
    /\ call = "idle"
    /\ \E p \in argsort(concatenate(ar1, ar2)) :
          /\ perm' = p
          /\ ret' = setmember1d(ar1, ar2, p)
    /\ call' = "setmember1d"
    /\ UNCHANGED <<ar1, ar2, toEnd, toBegin>>

CallUnion1d ==
    /\ call = "idle"
    /\ ret' = union1d(ar1, ar2)
    /\ call' = "union1d"
    /\ UNCHANGED <<ar1, ar2, toEnd, toBegin, perm>>

CallSetdiff1d ==
    /\ call = "idle"
    /\ \E p \in argsort(concatenate(ar1, ar2)) :
          /\ perm' = p
          /\ ret' = setdiff1d(ar1, ar2, p)
    /\ call' = "setdiff1d"
    /\ UNCHANGED <<ar1, ar2, toEnd, toBegin>>

Next ==
    \/ CallEdiff1d
    \/ CallUnique1d
    \/ CallUnique1dRetIndx
    \/ CallIntersect1d
    \/ CallIntersect1dNu
    \/ CallSetxor1d
    \/ CallSetmember1d
    \/ CallUnion1d
    \/ CallSetdiff1d

Spec == Init /\ [][Next]_vars

SpecUnique == InitUnique /\ [][Next]_vars

----------------------------------------------------------------------------
(* Properties of the operations. *)

IsStrictlyAscending(s) == \A k \in 1..(Len(s) - 1) : s[k] < s[k + 1]

\* s is t with some elements left out, the others in t's order.
RECURSIVE IsSubsequence(_, _)
IsSubsequence(s, t) ==
    IF s = <<>> THEN TRUE
    ELSE IF t = <<>> THEN FALSE
    ELSE IF Head(s) = Head(t) /\ IsSubsequence(Tail(s), Tail(t)) THEN TRUE
    ELSE IsSubsequence(s, Tail(t))

Given(x) == x # None

\* C1: setmember1d(a, b) returns len(a) flags, flag i true iff a[i] occurs
\* in b, for all a and b, duplicates allowed.  Stated for the calls that
\* return.
C1_SetmemberIsMembership ==
    (call = "setmember1d" /\ ~ret.raised) =>
        /\ Len(ret.val) = Len(ar1)
        /\ \A i \in 1..Len(ar1) : ret.val[i] <=> (ar1[i] \in Range(ar2))

\* C2: unique1d(a) is strictly ascending, holds exactly the values of a and
\* is no longer than a, for every a.
C2_UniqueSortedSameValues ==
    call = "unique1d" =>
        /\ ~ret.raised
        /\ IsStrictlyAscending(ret.val)
        /\ Range(ret.val) = Range(ar1)
        /\ Len(ret.val) <= Len(ar1)

\* C3: setdiff1d(a, b) is a subsequence of a in a's order whose value set
\* is the values of a minus the values of b, for all a and b.  Stated for
\* the calls that return.
C3_SetdiffOrderedDifference ==
    (call = "setdiff1d" /\ ~ret.raised) =>
        /\ IsSubsequence(ret.val, ar1)
        /\ Range(ret.val) = Range(ar1) \ Range(ar2)

\* C4: for a and b without internal duplicates, setxor1d(a, b) equals
\* setdiff1d(union1d(a, b), intersect1d(a, b)) and equals setxor1d(b, a).
\* Stated for the calls in which union1d returns.
C4_SetxorManyWays ==
    (call = "setxor1d" /\ IsUnique(ar1) /\ IsUnique(ar2)) =>
        LET aux1 == intersect1d(ar1, ar2)
            aux2 == union1d(ar1, ar2)
        IN  /\ ~ret.raised
            /\ ~aux1.raised
            /\ ~aux2.raised =>
               \A p \in argsort(concatenate(aux2.val, aux1.val)) :
                  setdiff1d(aux2.val, aux1.val, p) = ret
            /\ setxor1d(ar2, ar1) = ret

\* C5: intersect1d_nu(a, b) equals unique1d(intersect1d(a, b)) element for
\* element, for all a and b, duplicates included.  Stated for the calls in
\* which both sides return.
C5_IntersectNuManyWays ==
    call = "intersect1d_nu" =>
        LET c2 == unique1d(intersect1d(ar1, ar2).val, FALSE, <<>>)
        IN  (~ret.raised /\ ~c2.raised) => ret.val = c2.val

\* C6: ediff1d returns the differences, preceded by toBegin when toBegin is
\* given and followed by toEnd when toEnd is given; a sentinel is given by
\* its presence, whatever its value.  Stated for arrays of length >= 1.
C6_EdiffSentinelsByPresence ==
    (call = "ediff1d" /\ Len(ar1) >= 1) =>
        /\ ~ret.raised
        /\ ret.val = (IF Given(toBegin) THEN toBegin ELSE <<>>)
                     \o AdjacentDiff(ar1)
                     \o (IF Given(toEnd) THEN toEnd ELSE <<>>)
        /\ Len(ret.val) = Len(ar1) - 1
                          + (IF Given(toBegin) THEN 1 ELSE 0)
                          + (IF Given(toEnd) THEN 1 ELSE 0)

\* C7: no operation fails on empty input: unique1d(<<>>) is <<>>, and the
\* two-array operations return when one or both inputs are empty.
C7_EmptyInputDoesNotFail ==
    /\ (call = "unique1d" /\ ar1 = <<>>) => ret = Ok(<<>>)
    /\ (/\ call \in {"intersect1d", "intersect1d_nu", "union1d", "setxor1d",
                     "setmember1d", "setdiff1d"}
        /\ (ar1 = <<>> \/ ar2 = <<>>)) => ~ret.raised

\* C8: unique1d(a, retIndx=True) returns indices and values of equal length,
\* every index a position of a, a[indx[k]] = vals[k], and vals equal to
\* unique1d(a), for every a.
C8_UniqueIndicesReproduceValues ==
    call = "unique1d_retIndx" =>
        /\ ~ret.raised
        /\ LET indx == ret.val[1]
               vals == ret.val[2]
           IN  /\ Len(indx) = Len(vals)
               /\ \A k \in 1..Len(indx) :
                     indx[k] \in 1..Len(ar1) /\ ar1[indx[k]] = vals[k]
               /\ unique1d(ar1, FALSE, <<>>) = Ok(vals)

\* C9: for a and b without internal duplicates, intersect1d(a, b) holds
\* exactly the values present in both, each once, strictly ascending.
C9_IntersectOfUniqueInputs ==
    (call = "intersect1d" /\ IsUnique(ar1) /\ IsUnique(ar2)) =>
        /\ ~ret.raised
        /\ IsStrictlyAscending(ret.val)
        /\ Range(ret.val) = Range(ar1) \cap Range(ar2)

\* C9 witness: an unsorted first input, two common values, one value of
\* each input missing from the other.
C9_Witness ==
    /\ call = "intersect1d"
    /\ IsUnique(ar1) /\ IsUnique(ar2)
    /\ Len(ar1) = 3 /\ ar1[1] > ar1[2]
    /\ Len(ret.val) = 2
    /\ Range(ar1) \ Range(ar2) # {}
    /\ Range(ar2) \ Range(ar1) # {}

\* C10: the result of setmember1d (and of setdiff1d) is the same for every
\* order in which argsort may place the equal elements of the concatenation.
C10_TieOrderIndependent ==
    /\ call = "setmember1d" =>
          \A p \in argsort(concatenate(ar1, ar2)) : setmember1d(ar1, ar2, p) = ret
    /\ call = "setdiff1d" =>
          \A p \in argsort(concatenate(ar1, ar2)) : setdiff1d(ar1, ar2, p) = ret

====
